---- MODULE Spec2Model ----
(***************************************************************************)
(* A model of the pachyderm FUSE adapter (package fuse: filesystem,        *)
(* directory, file, handle) against its data service, and of the job      *)
(* store of the persist server (rethinkAPIServer).                         *)
(*                                                                         *)
(* Seven specifications share the variables below:                         *)
(*   SpecResolve  filesystem.getCommitMount on bounded mount lists         *)
(*   SpecInode    concurrent calls of filesystem.inode                     *)
(*   SpecHandle   one file object, its handles and the put-file stream     *)
(*   SpecClose    handle.Flush and file.Fsync, statement by statement      *)
(*   Spec         one node walked down from the Root by lookup, with the   *)
(*                directory handlers, against a data service whose         *)
(*                commits get finished while the mount lives               *)
(*   SpecJobs     CreateJobInfo, ListJobInfos and DeleteJobInfo on the     *)
(*                JobInfos table, with genCommitIndex on bounded lists     *)
(*   SpecPods     StartPod, SucceedPod and FailPod on one job's document   *)
(***************************************************************************)
EXTENDS Integers, Sequences, FiniteSets, TLC

VARIABLES
    mounts,     \* filesystem.CommitMounts: a sequence of CommitMount
    fsShard,    \* filesystem.Shard
    commitOpen, \* data service: which commits of repo R are still open
    cur,        \* the node a handler is called on (Root, directory or file)
    origin,     \* what getCommitMount answered when cur's repository directory
                \* was looked up at the Root (NilMount at the Root itself)
    last,       \* what the last handler call was, returned and issued
    inodes,     \* filesystem.inodes: key -> inode
    lock,       \* filesystem.lock: [readers |-> set of threads, writer |-> thread or 0]
    thr,        \* per thread: its position in filesystem.inode and its locals
    handedOut,  \* every <<file triple, inode>> pair filesystem.inode has returned
    file,       \* the file object the handles belong to
    handles,    \* file.handles: a sequence of [w, written]
    stream,     \* the bytes the data service received on the put-file stream
    closed,     \* writer -> how many times Close was called on it
    jobInfos,   \* the JobInfos table: JobID -> document
    podCalls    \* JobID -> the counters its document was written with and the
                \* pod calls that have updated it since

vars == <<mounts, fsShard, commitOpen, cur, origin, last, inodes, lock, thr,
          handedOut, file, handles, stream, closed, jobInfos, podCalls>>

(***************************************************************************)
(* Bounds of the model.                                                    *)
(***************************************************************************)
MaxMounts == 2

(***************************************************************************)
(* Values.                                                                 *)
(***************************************************************************)
\* A nil *pfsclient.Shard.
NoShard == "nil"

\* A CommitMount (part_000:8-13). from = "" stands for FromCommit == nil.
Mount(repo, commit, from, alias, shard) ==
    [repo |-> repo, commit |-> commit, from |-> from, alias |-> alias, shard |-> shard]

\* The mounts SpecResolve draws its lists from.
ResolveMounts ==
    [repo : {"R", "out"}, commit : {"", "c1"}, from : {""},
     alias : {"", "R", "out"}, shard : {"S1"}]

\* The names SpecResolve resolves.
ResolveNames == {"", "R", "out", "Q"}

RECURSIVE SeqsUpTo(_, _)
SeqsUpTo(S, n) ==
    IF n = 0 THEN {<<>>}
    ELSE LET shorter == SeqsUpTo(S, n - 1)
         IN  shorter \cup {Append(q, x) : q \in {r \in shorter : Len(r) = n - 1}, x \in S}

(***************************************************************************)
(* filesystem.getCommitMount (part_001:360-383).  The result is the        *)
(* pointer the code returns: nil, the idx-th element of CommitMounts, or a *)
(* freshly made mount (idx = 0).                                           *)
(***************************************************************************)
NilMount == [kind |-> "nil", idx |-> 0, m |-> Mount("", "", "", "", NoShard)]

RECURSIVE FirstByAlias(_, _, _)
FirstByAlias(ms, s, i) ==
    IF i > Len(ms) THEN 0
    ELSE IF ms[i].alias = s THEN i
    ELSE FirstByAlias(ms, s, i + 1)

RECURSIVE FirstByRepo(_, _, _)
FirstByRepo(ms, s, i) ==
    IF i > Len(ms) THEN 0
    ELSE IF ms[i].repo = s THEN i
    ELSE FirstByRepo(ms, s, i + 1)

\* The mutant scans repository names before aliases.
getCommitMountRepoFirst(ms, shard, nameOrAlias) ==
    IF Len(ms) = 0
    THEN [kind |-> "adhoc", idx |-> 0, m |-> Mount(nameOrAlias, "", "", "", shard)]
    ELSE LET r == FirstByRepo(ms, nameOrAlias, 1)
             a == FirstByAlias(ms, nameOrAlias, 1)
         IN  IF r # 0 THEN [kind |-> "mount", idx |-> r, m |-> ms[r]]
             ELSE IF a # 0 THEN [kind |-> "mount", idx |-> a, m |-> ms[a]]
             ELSE NilMount

getCommitMount(ms, shard, nameOrAlias) ==
    IF Len(ms) = 0
    THEN [kind |-> "adhoc", idx |-> 0, m |-> Mount(nameOrAlias, "", "", "", shard)]
    ELSE LET a == FirstByAlias(ms, nameOrAlias, 1)
             r == FirstByRepo(ms, nameOrAlias, 1)
         IN  IF a # 0 THEN [kind |-> "mount", idx |-> a, m |-> ms[a]]
             ELSE IF r # 0 THEN [kind |-> "mount", idx |-> r, m |-> ms[r]]
             ELSE NilMount

\* filesystem.getFromCommitID (part_001:385-391).
getFromCommitID(ms, shard, nameOrAlias) ==
    LET cm == getCommitMount(ms, shard, nameOrAlias)
    IN  IF cm.kind = "nil" \/ cm.m.from = "" THEN "" ELSE cm.m.from

(***************************************************************************)
(* Values the variables hold while a specification does not use them.      *)
(***************************************************************************)
NoNode ==
    [kind |-> "none", repo |-> "", commit |-> "", path |-> <<>>, alias |-> "",
     shard |-> NoShard, write |-> FALSE, local |-> FALSE, size |-> 0]

NoLast == [op |-> "none"]

IdleService == commitOpen = <<>>
IdleTree == cur = NoNode /\ origin = NilMount
IdleInodes == inodes = <<>> /\ lock = <<>> /\ thr = <<>> /\ handedOut = {}
IdleHandles == file = NoNode /\ handles = <<>> /\ stream = <<>> /\ closed = <<>>
IdleJobs == jobInfos = <<>> /\ podCalls = <<>>

(***************************************************************************)
(* SpecResolve: getCommitMount applied to every mount list of at most      *)
(* MaxMounts mounts.                                                       *)
(***************************************************************************)
InitResolve ==
    /\ mounts \in SeqsUpTo(ResolveMounts, MaxMounts)
    /\ fsShard = "S9"
    /\ last = NoLast
    /\ IdleService /\ IdleTree /\ IdleInodes /\ IdleHandles /\ IdleJobs

Resolve(s) ==
    /\ last' = [op |-> "resolve", name |-> s, res |-> getCommitMount(mounts, fsShard, s)]
    /\ UNCHANGED <<mounts, fsShard, commitOpen, cur, origin, inodes, lock, thr,
                   handedOut, file, handles, stream, closed, jobInfos, podCalls>>

NextResolve == \E s \in ResolveNames : Resolve(s)

SpecResolve == InitResolve /\ [][NextResolve]_vars

\* C9: with a non-empty mount list resolve(s) is the first mount whose alias
\* is s if there is one, even when some mount's repository is named s;
\* otherwise the first mount whose repository is s; otherwise nothing.  With
\* an empty list it is a fresh unpinned mount of repository s carrying the
\* filesystem's shard.
C9_AliasBeforeRepoName ==
    last.op = "resolve" =>
        LET s == last.name
            res == last.res
            n == Len(mounts)
            byAlias == {i \in 1..n : mounts[i].alias = s}
            byRepo == {i \in 1..n : mounts[i].repo = s}
        IN  /\ n = 0 =>
                /\ res.kind = "adhoc"
                /\ res.m = [repo |-> s, commit |-> "", from |-> "", alias |-> "",
                            shard |-> fsShard]
            /\ (n > 0 /\ byAlias # {}) =>
                /\ res.kind = "mount" /\ res.idx \in byAlias
                /\ \A j \in byAlias : res.idx <= j
                /\ res.m = mounts[res.idx]
            /\ (n > 0 /\ byAlias = {} /\ byRepo # {}) =>
                /\ res.kind = "mount" /\ res.idx \in byRepo
                /\ \A j \in byRepo : res.idx <= j
                /\ res.m = mounts[res.idx]
            /\ (n > 0 /\ byAlias = {} /\ byRepo = {}) => res.kind = "nil"

\* C9's case: a mount list in which an earlier mount's repository and a later
\* mount's alias are both the resolved name, and the later mount was returned.
C9_Witness ==
    /\ last.op = "resolve"
    /\ Len(mounts) = 2
    /\ mounts[1].repo = last.name /\ mounts[1].alias # last.name
    /\ mounts[2].alias = last.name
    /\ last.res.kind = "mount" /\ last.res.idx = 2

(***************************************************************************)
(* The inode table.                                                        *)
(***************************************************************************)
MaxThreads == 2

RECURSIVE PathStr(_)
\* A path is kept as the sequence of its segments; PathStr is the string
\* path.Join builds from them (part_001:133, 151, 155, 163, 463, 472).
PathStr(p) ==
    IF Len(p) = 0 THEN ""
    ELSE IF Len(p) = 1 THEN p[1]
    ELSE PathStr(SubSeq(p, 1, Len(p) - 1)) \o "/" \o p[Len(p)]

\* A pfsclient.File as far as key reads it.
Triple(repo, commit, path) == [repo |-> repo, commit |-> commit, path |-> path]

\* key (part_001:585-587): fmt.Sprintf("%s/%s/%s", repo, commit, path).
key(f) == f.repo \o "/" \o f.commit \o "/" \o PathStr(f.path)

\* The files SpecInode asks inodes for: the Root, a commit directory and a
\* file in it.
InodeFiles ==
    {Triple("", "", <<>>), Triple("R", "c1", <<>>), Triple("R", "c1", <<"a">>)}

Threads == 1..MaxThreads

IdleThread == [pc |-> "idle", f |-> Triple("", "", <<>>), inode |-> 0, ok |-> FALSE]

FreeLock == [readers |-> {}, writer |-> 0]

InitInode ==
    /\ mounts = <<>> /\ fsShard = NoShard /\ last = NoLast
    /\ IdleService /\ IdleTree /\ IdleHandles /\ IdleJobs
    /\ inodes = <<>>
    /\ lock = FreeLock
    /\ thr = [t \in Threads |-> IdleThread]
    /\ handedOut = {}

InodeFrame ==
    UNCHANGED <<mounts, fsShard, commitOpen, cur, origin, last, file, handles, stream,
                closed, jobInfos, podCalls>>

\* A handler (Attr) calls f.inode(file).
InodeCall(t, f) ==
    /\ thr[t].pc = "idle"
    /\ thr' = [thr EXCEPT ![t] = [pc |-> "rlock", f |-> f, inode |-> 0, ok |-> FALSE]]
    /\ UNCHANGED <<inodes, lock, handedOut>> /\ InodeFrame

\* f.lock.RLock() (part_001:224)
InodeRLock(t) ==
    /\ thr[t].pc = "rlock"
    /\ lock.writer = 0
    /\ lock' = [lock EXCEPT !.readers = @ \cup {t}]
    /\ thr' = [thr EXCEPT ![t].pc = "read"]
    /\ UNCHANGED <<inodes, handedOut>> /\ InodeFrame

\* inode, ok := f.inodes[key(file)] (part_001:225)
InodeRead(t) ==
    /\ thr[t].pc = "read"
    /\ LET k == key(thr[t].f)
       IN  thr' = [thr EXCEPT ![t].pc = "runlock",
                              ![t].ok = (k \in DOMAIN inodes),
                              ![t].inode = IF k \in DOMAIN inodes THEN inodes[k] ELSE 0]
    /\ UNCHANGED <<inodes, lock, handedOut>> /\ InodeFrame

\* f.lock.RUnlock() (part_001:226)
InodeRUnlock(t) ==
    /\ thr[t].pc = "runlock"
    /\ lock' = [lock EXCEPT !.readers = @ \ {t}]
    /\ thr' = [thr EXCEPT ![t].pc = "check"]
    /\ UNCHANGED <<inodes, handedOut>> /\ InodeFrame

\* if ok { return inode } (part_001:227-229)
InodeHit(t) ==
    /\ thr[t].pc = "check" /\ thr[t].ok
    /\ handedOut' = handedOut \cup {<<thr[t].f, thr[t].inode>>}
    /\ thr' = [thr EXCEPT ![t] = IdleThread]
    /\ UNCHANGED <<inodes, lock>> /\ InodeFrame

\* f.lock.Lock() (part_001:230-231)
InodeLock(t) ==
    /\ thr[t].pc = "check" /\ ~thr[t].ok
    /\ lock.writer = 0 /\ lock.readers = {}
    /\ lock' = [lock EXCEPT !.writer = t]
    /\ thr' = [thr EXCEPT ![t].pc = "recheck"]
    /\ UNCHANGED <<inodes, handedOut>> /\ InodeFrame

\* The mutant allocates without looking again.
RecheckSkipped(table, k) == FALSE

\* if inode, ok := f.inodes[key(file)]; ok (part_001:232)
RecheckFinds(table, k) == k \in DOMAIN table

\* The second look, under the write lock (part_001:232-234).
InodeRecheck(t) ==
    /\ thr[t].pc = "recheck"
    /\ LET k == key(thr[t].f)
       IN  IF RecheckFinds(inodes, k)
           THEN thr' = [thr EXCEPT ![t].pc = "unlock", ![t].ok = TRUE,
                                   ![t].inode = inodes[k]]
           ELSE thr' = [thr EXCEPT ![t].pc = "alloc"]
    /\ UNCHANGED <<inodes, lock, handedOut>> /\ InodeFrame

\* newInode := uint64(len(f.inodes)); f.inodes[key(file)] = newInode
\* (part_001:235-236)
InodeAlloc(t) ==
    /\ thr[t].pc = "alloc"
    /\ LET k == key(thr[t].f)
           newInode == Cardinality(DOMAIN inodes)
       IN  /\ inodes' = [x \in DOMAIN inodes \cup {k} |->
                            IF x = k THEN newInode ELSE inodes[x]]
           /\ thr' = [thr EXCEPT ![t].pc = "unlock", ![t].inode = newInode]
    /\ UNCHANGED <<lock, handedOut>> /\ InodeFrame

\* The deferred f.lock.Unlock() and the return (part_001:231, 233, 237).
InodeUnlock(t) ==
    /\ thr[t].pc = "unlock"
    /\ lock' = [lock EXCEPT !.writer = 0]
    /\ handedOut' = handedOut \cup {<<thr[t].f, thr[t].inode>>}
    /\ thr' = [thr EXCEPT ![t] = IdleThread]
    /\ UNCHANGED inodes /\ InodeFrame

NextInode ==
    \E t \in Threads :
        \/ \E f \in InodeFiles : InodeCall(t, f)
        \/ InodeRLock(t)
        \/ InodeRead(t)
        \/ InodeRUnlock(t)
        \/ InodeHit(t)
        \/ InodeLock(t)
        \/ InodeRecheck(t)
        \/ InodeAlloc(t)
        \/ InodeUnlock(t)

SpecInode == InitInode /\ [][NextInode]_vars

\* C4: over the whole life of the mount and under every interleaving, two
\* calls of inode return the same number exactly when they were made for
\* the same (repo, commit, path).
C4_InodesStableAndUnique ==
    \A p, q \in handedOut : (p[1] = q[1]) <=> (p[2] = q[2])

\* C4's case: a thread that missed under the read lock finds, under the
\* write lock, the entry another thread allocated in between, after inodes
\* of two different files were handed out.
C4_Witness ==
    \E t \in Threads :
        /\ thr[t].pc = "unlock" /\ thr[t].ok
        /\ \E p, q \in handedOut : p[1] # q[1]
        /\ \E p \in handedOut : p[1] = thr[t].f

(***************************************************************************)
(* SpecHandle: one file object (a file struct, part_001:166-171), the      *)
(* handles opened on it and the put-file stream of its path.               *)
(***************************************************************************)
MaxHandles == 1

\* The bytes a program writes to the file.  The kernel hands write a slice
\* of them, data = UserData[off .. off+len), at any offset, so a byte's
\* value tells where in the file it belongs.
UserData == <<1, 2>>

KernelSlice(off, len) == SubSeq(UserData, off + 1, off + len)

\* The put-file stream is followed up to this many bytes.
StreamCap == Len(UserData) + 1

\* The failure of a call of the data service, other than not-found.
RpcErrs == {"io"}

\* What the data service holds for the file's path when it is read.
SvcContent == <<1, 2>>

\* The file objects SpecHandle starts from: a file of repository R at commit
\* c1, below a directory that is writable or not, created here (local) or
\* looked up.
HandleFiles ==
    {[kind |-> "file", repo |-> "R", commit |-> "c1", path |-> <<"a">>,
      alias |-> "", shard |-> "S1", write |-> w, local |-> l, size |-> 0] :
        w \in BOOLEAN, l \in BOOLEAN}

HandleMounts == <<Mount("R", "c1", "c0", "", "S1")>>

\* The mutant names a node by its repository, alias or not.
getRepoNameOnly(n) == n.repo

\* d.getRepoOrAliasName (part_001:353-358).
getRepoOrAliasName(n) == IF n.alias # "" THEN n.alias ELSE n.repo

\* The inode table after a whole, uninterrupted call of filesystem.inode
\* (part_001:223-238).
InodeTableAfter(table, f) ==
    IF key(f) \in DOMAIN table THEN table
    ELSE [x \in DOMAIN table \cup {key(f)} |->
            IF x = key(f) THEN Cardinality(DOMAIN table) ELSE table[x]]

FileOf(n) == Triple(n.repo, n.commit, n.path)

\* A call of the data service, as the handler issued it.
Rpc(name, n, path, from) ==
    [rpc |-> name, repo |-> n.repo, commit |-> n.commit, path |-> PathStr(path),
     from |-> from, shard |-> n.shard]

NoHandle == [w |-> FALSE, written |-> 0]

\* The written counter of every handle.
Written(hs) == [i \in 1..Len(hs) |-> hs[i].written]

\* The record of a call on the file or on one of its handles: the request
\* (op, h, off, data), the answer (err, size, out), what reached the service
\* (fwd, rpcs) and the written counters of the handles before the call.
HLast(op, h, off, data, err, size, out, fwd, before, rpcs) ==
    [op |-> op, h |-> h, off |-> off, data |-> data, err |-> err, size |-> size,
     out |-> out, fwd |-> fwd, before |-> before, rpcs |-> rpcs]

InitHandle ==
    /\ mounts = HandleMounts /\ fsShard = "S0"
    /\ IdleService /\ IdleTree
    /\ lock = <<>> /\ thr = <<>> /\ handedOut = {}
    /\ inodes = <<>>
    /\ file \in HandleFiles
    /\ handles = <<>>
    /\ stream = <<>> /\ closed = <<>>
    /\ last = NoLast /\ IdleJobs

HandleFrame ==
    UNCHANGED <<mounts, fsShard, commitOpen, cur, origin, lock, thr, handedOut, closed,
                jobInfos, podCalls>>

\* file.Open (part_001:202-208) and file.newHandle (part_001:240-248).
Open ==
    /\ Len(handles) < MaxHandles
    /\ handles' = Append(handles, NoHandle)
    /\ last' = HLast("open", Len(handles) + 1, 0, <<>>, "ok", 0, <<>>, <<>>,
                    Written(handles), <<>>)
    /\ UNCHANGED <<file, stream, inodes>> /\ HandleFrame

\* The mutant forwards the whole slice again.
ForwardedAll(data, repeated) == data

\* request.Data[repeated:] (part_001:306).
DropRepeated(data, repeated) == SubSeq(data, repeated + 1, Len(data))

\* The mutant credits the kernel with the forwarded bytes only.
ResponseSizeForwardedOnly(n, repeated) == n

\* response.Size = written + repeated (part_001:310).
ResponseSize(n, repeated) == n + repeated

\* handle.Write (part_001:286-316).
Write(h, off, data) ==
    LET hd == handles[h]
        putRpc == IF hd.w THEN <<>> ELSE <<Rpc("put_file_writer", file, file.path, "")>>
        repeated == hd.written - off
        opened == [handles EXCEPT ![h].w = TRUE]
    IN  /\ HandleFrame
        /\ \/ \* PutFileWriter fails (part_001:293-295)
              /\ ~hd.w
              /\ \E e \in RpcErrs :
                   last' = HLast("write", h, off, data, e, 0, <<>>, <<>>, Written(handles), putRpc)
              /\ UNCHANGED <<file, handles, stream, inodes>>
           \/ \* a gap (part_001:303-305)
              /\ repeated < 0
              /\ handles' = opened
              /\ last' = HLast("write", h, off, data, "gap", 0, <<>>, <<>>, Written(handles), putRpc)
              /\ UNCHANGED <<file, stream, inodes>>
           \/ \* request.Data[repeated:] with repeated > len(request.Data): the
              \* slice expression panics (part_001:306)
              /\ repeated > Len(data)
              /\ handles' = opened
              /\ last' = HLast("write", h, off, data, "panic", 0, <<>>, <<>>, Written(handles), putRpc)
              /\ UNCHANGED <<file, stream, inodes>>
           \/ \* h.w.Write fails after n bytes (part_001:306-309)
              /\ repeated >= 0 /\ repeated <= Len(data)
              /\ \E e \in RpcErrs, n \in 0..Len(DropRepeated(data, repeated)) :
                   LET sent == SubSeq(DropRepeated(data, repeated), 1, n)
                   IN  /\ Len(stream) + n <= StreamCap
                       /\ stream' = stream \o sent
                       /\ last' = HLast("write", h, off, data, e, 0, <<>>, sent,
                                        Written(handles), putRpc)
              /\ handles' = opened
              /\ UNCHANGED <<file, inodes>>
           \/ \* h.w.Write takes the whole slice (part_001:306-315)
              /\ repeated >= 0 /\ repeated <= Len(data)
              /\ LET sent == DropRepeated(data, repeated)
                     n == Len(sent)
                 IN  /\ Len(stream) + n <= StreamCap
                     /\ stream' = stream \o sent
                     /\ handles' = [opened EXCEPT ![h].written = @ + n]
                     /\ file' = [file EXCEPT !.size = IF @ < off + n THEN off + n ELSE @]
                     /\ last' = HLast("write", h, off, data, "ok", ResponseSize(n, repeated),
                                      <<>>, sent, Written(handles), putRpc)
              /\ UNCHANGED inodes

\* handle.Flush (part_001:318-327).
Flush(h) ==
    /\ handles' = [handles EXCEPT ![h].w = FALSE]
    /\ \E e \in (IF handles[h].w THEN RpcErrs \cup {"ok"} ELSE {"ok"}) :
         last' = HLast("flush", h, 0, <<>>, e, 0, <<>>, <<>>, Written(handles),
                       IF handles[h].w THEN <<[rpc |-> "close", h |-> h]>> ELSE <<>>)
    /\ UNCHANGED <<file, stream, inodes>> /\ HandleFrame

RECURSIVE CloseRpcs(_, _, _)
\* The writers file.Fsync closes among handles i..upto, in order.
CloseRpcs(hs, i, upto) ==
    IF i > upto THEN <<>>
    ELSE (IF hs[i].w THEN <<[rpc |-> "close", h |-> i]>> ELSE <<>>)
         \o CloseRpcs(hs, i + 1, upto)

\* file.Fsync (part_001:210-221): the loop ends at the first Close that
\* fails (at handle k), or runs through all handles (k = 0).
Fsync(k) ==
    LET upto == IF k = 0 THEN Len(handles) ELSE k
    IN  /\ k # 0 => handles[k].w
        /\ handles' = [i \in 1..Len(handles) |->
                          IF i <= upto THEN [handles[i] EXCEPT !.w = FALSE]
                          ELSE handles[i]]
        /\ \E e \in (IF k = 0 THEN {"ok"} ELSE RpcErrs) :
             last' = HLast("fsync", k, 0, <<>>, e, 0, <<>>, <<>>, Written(handles),
                           CloseRpcs(handles, 1, upto))
        /\ UNCHANGED <<file, stream, inodes>> /\ HandleFrame

\* handle.Release (part_001:329-331).
Release(h) ==
    /\ last' = HLast("release", h, 0, <<>>, "ok", 0, <<>>, <<>>, Written(handles), <<>>)
    /\ UNCHANGED <<file, handles, stream, inodes>> /\ HandleFrame

\* The mutant reports the size the writes have reached.
WritableAttrSizeStreamed(f) == f.size

\* a.Size = 0 for a file of an open commit (part_001:177-180).
WritableAttrSize(f) == 0

\* file.Attr (part_001:173-200) on the node f, with the inode table:
\* the set of <<last, inodes'>> outcomes.
FileAttr(f) ==
    LET call == <<Rpc("inspect_file", f, f.path,
                      getFromCommitID(mounts, fsShard, getRepoOrAliasName(f)))>>
        done(size, rpcs) ==
            /\ last' = HLast("attr", 0, 0, <<>>, "ok", size, <<>>, <<>>, <<>>, rpcs)
            /\ inodes' = InodeTableAfter(inodes, FileOf(f))
    IN  IF f.write
        THEN done(WritableAttrSize(f), <<>>)
        ELSE \/ \* InspectFile answers
                \E sz \in {0, Len(SvcContent)} : done(sz, call)
             \/ \* InspectFile fails
                \E e \in RpcErrs \cup {"notfound"} :
                    IF f.local
                    THEN done(0, call)
                    ELSE /\ last' = HLast("attr", 0, 0, <<>>, e, 0, <<>>, <<>>, <<>>, call)
                         /\ UNCHANGED inodes

Attr ==
    /\ FileAttr(file)
    /\ UNCHANGED <<file, handles, stream>> /\ HandleFrame

NextHandle ==
    \/ Open
    \/ \E h \in 1..Len(handles), off \in 0..Len(UserData) :
         \E len \in 0..(Len(UserData) - off) :
            Write(h, off, KernelSlice(off, len))
    \/ \E h \in 1..Len(handles) : Flush(h)
    \/ \E k \in 0..Len(handles) : Fsync(k)
    \/ \E h \in 1..Len(handles) : Release(h)
    \/ Attr

SpecHandle == InitHandle /\ [][NextHandle]_vars

\* C2 (the claim as stated): write never crashes, whatever the offset is
\* against the handle's written counter.
C2_WriteNeverCrashes ==
    last.op = "write" => last.err # "panic"

\* C5: a write that succeeds forwards exactly data[written - offset ..] and
\* reports response.size = |data|; and as long as one handle alone has
\* written and no failed write left bytes behind, the service holds every
\* byte once, in file order (write(h, 0, A) then write(h, 0, A ++ B) leaves
\* A ++ B).
C5_DuplicateWindowForwardsOnce ==
    /\ (last.op = "write" /\ last.err = "ok") =>
          LET repeated == last.before[last.h] - last.off
          IN  /\ repeated >= 0 /\ repeated <= Len(last.data)
              /\ last.fwd = SubSeq(last.data, repeated + 1, Len(last.data))
              /\ last.size = Len(last.data)
    /\ \A h \in 1..Len(handles) :
          (/\ \A g \in 1..Len(handles) : g # h => handles[g].written = 0
           /\ Len(stream) = handles[h].written)
          => stream = SubSeq(UserData, 1, handles[h].written)

\* C5's case: after write(h, 0, <<1>>) the call write(h, 0, <<1, 2>>) has
\* forwarded <<2>> alone, reported 2, and the service holds <<1, 2>>.
C5_Witness ==
    /\ last.op = "write" /\ last.err = "ok"
    /\ last.off = 0 /\ last.data = <<1, 2>> /\ last.before[last.h] = 1
    /\ last.fwd = <<2>> /\ last.size = 2
    /\ stream = <<1, 2>>

\* C6: a successful write(h, off, data) with response.size = k leaves written
\* at off + k; flush and fsync leave every written counter alone; and a
\* write at the offset written stands at is never refused as a gap and, when
\* it succeeds, forwards all of its data, with a writer newly opened if none
\* was open.
C6_SequentialWritesContinue ==
    /\ (last.op = "write" /\ last.err = "ok") =>
          handles[last.h].written = last.off + last.size
    /\ last.op \in {"flush", "fsync"} => Written(handles) = last.before
    /\ (last.op = "write" /\ last.off = last.before[last.h]) =>
          /\ last.err \notin {"gap", "panic"}
          /\ last.err = "ok" => (last.fwd = last.data /\ handles[last.h].w)

\* C6's case: a write continues at written > 0 after a flush or fsync closed
\* the writer (the call had to open a new one) and forwards all of its data.
C6_Witness ==
    /\ last.op = "write" /\ last.err = "ok"
    /\ last.before[last.h] > 0 /\ last.off = last.before[last.h]
    /\ last.rpcs # <<>>
    /\ last.fwd = last.data /\ last.data # <<>>

\* C10: attr on a file whose writable flag is set answers size 0 and calls
\* the data service for nothing, whatever was written, flushed or synced.
C10_WritableAttrSizeZero ==
    (last.op = "attr" /\ file.write) =>
        (last.err = "ok" /\ last.size = 0 /\ last.rpcs = <<>>)

\* C10's case: attr on a writable file after bytes were streamed and the
\* writer was closed again.
C10_Witness ==
    /\ last.op = "attr" /\ file.write
    /\ file.size > 0 /\ stream # <<>>
    /\ \E h \in 1..Len(handles) : handles[h].written > 0 /\ ~handles[h].w

\* C20 (the claim as stated): a write refused for a gap issues no
\* put_file_writer, forwards no byte and leaves every written counter as it
\* was.
C20_GapWriteHasNoEffect ==
    (last.op = "write" /\ last.err = "gap") =>
        /\ last.rpcs = <<>>
        /\ last.fwd = <<>>
        /\ Written(handles) = last.before

RECURSIVE SumWritten(_, _)
\* The written counters of the handles i.. added up.
SumWritten(hs, i) ==
    IF i > Len(hs) THEN 0 ELSE hs[i].written + SumWritten(hs, i + 1)

\* C21 (the claim as stated): each handle's written counter is the number of
\* bytes it has forwarded, so the counters of the file's handles add up to
\* the bytes the data service received on the put-file stream, also after a
\* write whose writer took a part of the slice and then failed.
C21_WrittenCountsForwardedBytes ==
    SumWritten(handles, 1) = Len(stream)

(***************************************************************************)
(* SpecClose: handle.Flush and file.Fsync run one statement at a time by   *)
(* the goroutines that serve the kernel's requests, on the handles of one  *)
(* file.  Writers are told apart here: h.w is the number of the writer the *)
(* handle holds, 0 for nil.                                                *)
(***************************************************************************)
MaxWriters == 2

\* A goroutine that serves no request.
NoCall == [op |-> "none", pc |-> "idle", h |-> 0, w |-> 0]

InitClose ==
    /\ mounts = HandleMounts /\ fsShard = "S0"
    /\ IdleService /\ IdleTree
    /\ inodes = <<>> /\ lock = <<>> /\ handedOut = {}
    /\ file \in {f \in HandleFiles : f.write}
    /\ handles \in {[i \in 1..n |-> [w |-> 0, written |-> 0]] : n \in 1..MaxHandles}
    /\ stream = <<>>
    /\ closed = <<>>
    /\ thr = [t \in Threads |-> NoCall]
    /\ last = NoLast /\ IdleJobs

CloseFrame ==
    UNCHANGED <<mounts, fsShard, commitOpen, cur, origin, inodes, lock, handedOut,
                file, stream, jobInfos, podCalls>>

\* The writers the handles lo..hi hold.
Attached(lo, hi) == {handles[i].w : i \in lo..hi} \ {0}

\* The goroutine t returns from its call (no statement that returns changes
\* a handle); the record holds the writers still attached to the handle
\* (flush) or to the file's handles (fsync).
Return(t, err) ==
    /\ thr' = [thr EXCEPT ![t] = NoCall]
    /\ last' = [op |-> thr[t].op, h |-> thr[t].h, err |-> err,
                attached |-> IF thr[t].op = "flush"
                             THEN Attached(thr[t].h, thr[t].h)
                             ELSE Attached(1, Len(handles))]

\* handle.Write opens the handle's writer (part_001:290-297), while no flush
\* and no fsync is running.
OpenWriter(h) ==
    /\ \A t \in Threads : thr[t].pc = "idle"
    /\ handles[h].w = 0
    /\ Len(closed) < MaxWriters
    /\ closed' = Append(closed, 0)
    /\ handles' = [handles EXCEPT ![h].w = Len(closed) + 1]
    /\ UNCHANGED <<thr, last>> /\ CloseFrame

\* The kernel's flush request on the handle h reaches handle.Flush; one
\* flush at a time is followed on a handle.
FlushCall(t, h) ==
    /\ thr[t].pc = "idle"
    /\ \A u \in Threads : ~(thr[u].op = "flush" /\ thr[u].h = h)
    /\ thr' = [thr EXCEPT ![t] = [op |-> "flush", pc |-> "test", h |-> h, w |-> 0]]
    /\ UNCHANGED <<handles, closed, last>> /\ CloseFrame

\* if h.w != nil (part_001:319); return nil (part_001:326).
FlushTest(t) ==
    /\ thr[t].op = "flush" /\ thr[t].pc = "test"
    /\ IF handles[thr[t].h].w # 0
       THEN thr' = [thr EXCEPT ![t].pc = "take"] /\ UNCHANGED last
       ELSE Return(t, "ok")
    /\ UNCHANGED <<handles, closed>> /\ CloseFrame

\* w := h.w (part_001:320).
FlushTake(t) ==
    /\ thr[t].op = "flush" /\ thr[t].pc = "take"
    /\ thr' = [thr EXCEPT ![t].pc = "clear", ![t].w = handles[thr[t].h].w]
    /\ UNCHANGED <<handles, closed, last>> /\ CloseFrame

\* h.w = nil (part_001:321).
FlushClear(t) ==
    /\ thr[t].op = "flush" /\ thr[t].pc = "clear"
    /\ handles' = [handles EXCEPT ![thr[t].h].w = 0]
    /\ thr' = [thr EXCEPT ![t].pc = "close"]
    /\ UNCHANGED <<closed, last>> /\ CloseFrame

\* w.Close() on the writer taken: it fails or not, and on a nil w it
\* panics.
CloseTaken(t) ==
    IF thr[t].w = 0 THEN {"panic"} ELSE {"ok"} \cup RpcErrs

ClosedAfter(t) ==
    IF thr[t].w = 0 THEN closed ELSE [closed EXCEPT ![thr[t].w] = @ + 1]

\* if err := w.Close(); err != nil { return err }; return nil
\* (part_001:322-326).
FlushClose(t) ==
    /\ thr[t].op = "flush" /\ thr[t].pc = "close"
    /\ closed' = ClosedAfter(t)
    /\ \E e \in CloseTaken(t) : Return(t, e)
    /\ UNCHANGED handles /\ CloseFrame

\* The kernel's fsync request on the file reaches file.Fsync; one fsync at a
\* time is followed on the file.
FsyncCall(t) ==
    /\ thr[t].pc = "idle"
    /\ \A u \in Threads : thr[u].op # "fsync"
    /\ thr' = [thr EXCEPT ![t] = [op |-> "fsync", pc |-> "test", h |-> 1, w |-> 0]]
    /\ UNCHANGED <<handles, closed, last>> /\ CloseFrame

\* for _, h := range f.handles { if h.w != nil (part_001:211-212);
\* return nil (part_001:220).
FsyncTest(t) ==
    /\ thr[t].op = "fsync" /\ thr[t].pc = "test"
    /\ IF thr[t].h > Len(handles)
       THEN Return(t, "ok")
       ELSE /\ thr' = IF handles[thr[t].h].w # 0
                      THEN [thr EXCEPT ![t].pc = "take"]
                      ELSE [thr EXCEPT ![t].h = @ + 1]
            /\ UNCHANGED last
    /\ UNCHANGED <<handles, closed>> /\ CloseFrame

\* w := h.w (part_001:213).
FsyncTake(t) ==
    /\ thr[t].op = "fsync" /\ thr[t].pc = "take"
    /\ thr' = [thr EXCEPT ![t].pc = "clear", ![t].w = handles[thr[t].h].w]
    /\ UNCHANGED <<handles, closed, last>> /\ CloseFrame

\* h.w = nil (part_001:214).
FsyncClear(t) ==
    /\ thr[t].op = "fsync" /\ thr[t].pc = "clear"
    /\ handles' = [handles EXCEPT ![thr[t].h].w = 0]
    /\ thr' = [thr EXCEPT ![t].pc = "close"]
    /\ UNCHANGED <<closed, last>> /\ CloseFrame

\* if err := w.Close(); err != nil { return err } (part_001:215-217), then
\* the next handle.
FsyncClose(t) ==
    /\ thr[t].op = "fsync" /\ thr[t].pc = "close"
    /\ closed' = ClosedAfter(t)
    /\ \E e \in CloseTaken(t) :
          IF e = "ok"
          THEN /\ thr' = [thr EXCEPT ![t].pc = "test", ![t].h = @ + 1, ![t].w = 0]
               /\ UNCHANGED last
          ELSE Return(t, e)
    /\ UNCHANGED handles /\ CloseFrame

NextClose ==
    \/ \E h \in 1..Len(handles) : OpenWriter(h)
    \/ \E t \in Threads, h \in 1..Len(handles) : FlushCall(t, h)
    \/ \E t \in Threads : FlushTest(t)
    \/ \E t \in Threads : FlushTake(t)
    \/ \E t \in Threads : FlushClear(t)
    \/ \E t \in Threads : FlushClose(t)
    \/ \E t \in Threads : FsyncCall(t)
    \/ \E t \in Threads : FsyncTest(t)
    \/ \E t \in Threads : FsyncTake(t)
    \/ \E t \in Threads : FsyncClear(t)
    \/ \E t \in Threads : FsyncClose(t)

SpecClose == InitClose /\ [][NextClose]_vars

\* C17 (the claim as stated): under every interleaving of flush and fsync
\* no writer is closed twice, and no writer is attached to the handle when
\* flush returns success, nor to any handle of the file when fsync does.
C17_WriterClosedExactlyOnce ==
    /\ \A w \in DOMAIN closed : closed[w] <= 1
    /\ (last.op \in {"flush", "fsync"} /\ last.err = "ok") => last.attached = {}

(***************************************************************************)
(* The data service, as the adapter's client sees it: repository R with    *)
(* the commits c1 and c2, each of which holds the same files.              *)
(***************************************************************************)
SvcRepos == {"R"}
SvcCommits == {"c1", "c2"}

\* path -> file type; every regular file holds SvcContent.
SvcFiles ==
    [p \in {<<"a">>, <<"d">>, <<"d", "a">>, <<"d", "d">>} |->
        IF p = <<"d">> THEN "dir" ELSE IF p = <<"d", "d">> THEN "other" ELSE "regular"]

\* The answers of inspect_repo: "ok", not-found or a failure of the call.
InspectRepoAnswers(repo) ==
    (IF repo \in SvcRepos THEN {"ok"} ELSE {"notfound"}) \cup RpcErrs

\* The answers of inspect_commit: the commit's type, not-found or a failure.
\* For the empty id (an unpinned mount) the service answers not-found or,
\* as in the browsing scenario, a read-only info.
InspectCommitAnswers(repo, id, open) ==
    (IF repo \in SvcRepos /\ id \in SvcCommits
        THEN {IF open[id] THEN "write" ELSE "read"}
     ELSE IF repo \in SvcRepos /\ id = "" THEN {"read", "notfound"}
     ELSE {"notfound"}) \cup RpcErrs

\* The answers of inspect_file: the file's type, not-found or a failure.
InspectFileAnswers(repo, commit, path) ==
    (IF repo \in SvcRepos /\ commit \in SvcCommits /\ path \in DOMAIN SvcFiles
        THEN {SvcFiles[path]} ELSE {"notfound"}) \cup RpcErrs

\* What list_file answers for a directory: its children, as [path, type].
ListFileInfos(repo, commit, path) ==
    IF repo \in SvcRepos /\ commit \in SvcCommits
    THEN {[path |-> p, type |-> SvcFiles[p]] :
            p \in {q \in DOMAIN SvcFiles :
                     Len(q) = Len(path) + 1 /\ SubSeq(q, 1, Len(path)) = path}}
    ELSE {}

\* The answers of make_directory and delete_file: the service refuses a
\* change to anything but an open commit, and a call can fail.
ChangeAnswers(repo, commit, open) ==
    (IF repo \in SvcRepos /\ commit \in SvcCommits /\ open[commit]
        THEN {"ok"} ELSE {"notfound"}) \cup RpcErrs

(***************************************************************************)
(* Spec: the directory handlers on one node at a time.                     *)
(***************************************************************************)
MaxDepth == 2

\* The mount lists Spec is run with.
TreeConfigs ==
    { <<>>,
      <<Mount("R", "c1", "", "", "S1")>>,
      <<Mount("R", "", "", "", "S1")>>,
      <<Mount("R", "c2", "c1", "out", "S1"), Mount("out", "c1", "", "", "S2")>>,
      <<Mount("R", "c2", "c1", "out", "S1"), Mount("R", "c1", "", "Q", "S2")>> }

\* The names the kernel looks up, creates, makes and removes.
RootNames == {"R", "out", "Q"}
CommitNames == {"c1", "c2", "cx"}
FileNames == {"a", "d", "x"}

NamesAt(n) ==
    IF n.repo = "" THEN RootNames
    ELSE IF n.commit = "" THEN CommitNames
    ELSE FileNames

\* The directories whose inodes Spec follows in the inode table.
AttrFiles == {Triple("", "", <<>>), Triple("R", "c2", <<>>)}

\* filesystem.Root (part_001:52-66).
RootNode ==
    [kind |-> "dir", repo |-> "", commit |-> "", path |-> <<>>, alias |-> "",
     shard |-> NoShard, write |-> FALSE, local |-> FALSE, size |-> 0]

\* The mutant names the copy's repository by the alias when there is one.
copyNamedByAlias(d) ==
    [kind |-> "dir", repo |-> getRepoOrAliasName(d), commit |-> d.commit,
     path |-> d.path, alias |-> d.alias, shard |-> d.shard, write |-> d.write,
     local |-> FALSE, size |-> 0]

\* directory.copy (part_001:333-351).
copy(d) ==
    [kind |-> "dir", repo |-> d.repo, commit |-> d.commit, path |-> d.path,
     alias |-> d.alias, shard |-> d.shard, write |-> d.write, local |-> FALSE,
     size |-> 0]

\* path.Join(p, name) (part_001:133, 151, 155, 163, 463, 472).
Join(p, name) == Append(p, name)

\* A call of the data service that names no file.
RpcPlain(name, repo, commit) == [rpc |-> name, repo |-> repo, commit |-> commit]

\* The record of a handler call on a node: the request (op, recv, name), the
\* answer (err, node, out), the calls of the data service it issued (rpcs)
\* and the failure one of them answered with (svc, "none" if none failed).
TLast(op, recv, name, err, node, out, rpcs) ==
    [op |-> op, recv |-> recv, name |-> name, err |-> err, node |-> node,
     out |-> out, rpcs |-> rpcs, svc |-> "none"]

TLastSvc(svc, op, recv, name, err, node, out, rpcs) ==
    [TLast(op, recv, name, err, node, out, rpcs) EXCEPT !.svc = svc]

Init ==
    /\ mounts \in TreeConfigs
    /\ fsShard = "S0"
    /\ commitOpen \in [SvcCommits -> BOOLEAN]
    /\ cur = RootNode /\ origin = NilMount
    /\ last = NoLast
    /\ inodes = <<>>
    /\ lock = <<>> /\ thr = <<>> /\ handedOut = {}
    /\ IdleHandles /\ IdleJobs

TreeFrame ==
    UNCHANGED <<mounts, fsShard, lock, thr, handedOut, file, handles, stream, closed,
                jobInfos, podCalls>>

\* if commitInfo.CommitType == COMMIT_TYPE_READ { Write = false } else
\* { Write = true } (part_001:418-422, 441-445).
WriteOf(commitType) == commitType # "read"

\* The mutant answers not-found for a name no mount matches.
NoMountErrorNotFound == "ENOENT"

\* if commitMount == nil { return nil, fuse.EPERM } (part_001:395-397).
NoMountError == "EPERM"

\* directory.lookUpRepo (part_001:393-426).  The client answers a failed call
\* with an error and no info, so repoInfo == nil (part_001:402-404) does not
\* happen without one.
lookUpRepo(d, name) ==
    LET cm == getCommitMount(mounts, fsShard, name)
        m == cm.m
        rpc1 == RpcPlain("inspect_repo", m.repo, "")
        rpc2 == RpcPlain("inspect_commit", m.repo, m.commit)
        result == [copy(d) EXCEPT !.repo = m.repo, !.commit = m.commit,
                                  !.alias = m.alias, !.shard = m.shard]
    IN  IF cm.kind = "nil"
        THEN last' = TLast("lookup", d, name, NoMountError, NoNode, <<>>, <<>>)
        ELSE \E a \in InspectRepoAnswers(m.repo) :
                IF a # "ok"
                THEN last' = TLastSvc(a, "lookup", d, name, a, NoNode, <<>>, <<rpc1>>)
                ELSE \E c \in InspectCommitAnswers(m.repo, m.commit, commitOpen) :
                        IF c \notin {"read", "write"}
                        THEN last' = TLastSvc(c, "lookup", d, name, c, NoNode, <<>>,
                                              <<rpc1, rpc2>>)
                        ELSE last' = TLast("lookup", d, name, "ok",
                                           [result EXCEPT !.write = WriteOf(c)],
                                           <<>>, <<rpc1, rpc2>>)

\* directory.lookUpCommit (part_001:428-448).
lookUpCommit(d, name) ==
    LET rpc == RpcPlain("inspect_commit", d.repo, name)
    IN  \E c \in InspectCommitAnswers(d.repo, name, commitOpen) :
            IF c \notin {"read", "write"}
            THEN last' = TLastSvc(c, "lookup", d, name, c, NoNode, <<>>, <<rpc>>)
            ELSE last' = TLast("lookup", d, name, "ok",
                               [copy(d) EXCEPT !.commit = name, !.write = WriteOf(c)],
                               <<>>, <<rpc>>)

\* if err != nil { return nil, fuse.ENOENT } (part_001:476-478).
InspectFileError(e) == "ENOENT"

\* The switch on fileInfo.FileType (part_001:483-496).
NodeOfFileInfo(d, path, type, size) ==
    IF type = "regular"
        THEN [copy(d) EXCEPT !.kind = "file", !.path = path, !.size = size]
    ELSE IF type = "dir" THEN [copy(d) EXCEPT !.path = path]
    ELSE NoNode

\* The mutant asks the data service in a writable directory as well.
SynthesizesNever(d) == FALSE

\* if d.Node.Write: the file info is made up, not asked for (part_001:454-467).
Synthesizes(d) == d.write

\* directory.lookUpFile (part_001:450-497).
lookUpFile(d, name) ==
    LET path == Join(d.path, name)
        rpc == Rpc("inspect_file", d, path,
                   getFromCommitID(mounts, fsShard, getRepoOrAliasName(d)))
    IN  IF Synthesizes(d)
        THEN last' = TLast("lookup", d, name, "ok",
                           NodeOfFileInfo(d, path, "regular", 0), <<>>, <<>>)
        ELSE \E a \in InspectFileAnswers(d.repo, d.commit, path) :
                IF a \in {"notfound"} \cup RpcErrs
                THEN last' = TLastSvc(a, "lookup", d, name, InspectFileError(a), NoNode,
                                      <<>>, <<rpc>>)
                ELSE IF a = "other"
                THEN last' = TLast("lookup", d, name, "unrecognized", NoNode, <<>>, <<rpc>>)
                ELSE last' = TLast("lookup", d, name, "ok",
                                   NodeOfFileInfo(d, path, a,
                                                  IF a = "regular" THEN Len(SvcContent) ELSE 0),
                                   <<>>, <<rpc>>)

\* directory.Lookup (part_001:89-100).
Lookup(name) ==
    /\ cur.kind = "dir"
    /\ Len(cur.path) < MaxDepth
    /\ IF cur.repo = "" THEN lookUpRepo(cur, name)
       ELSE IF cur.commit = "" THEN lookUpCommit(cur, name)
       ELSE lookUpFile(cur, name)
    /\ UNCHANGED <<cur, origin, commitOpen, inodes>> /\ TreeFrame

\* The kernel calls its next handler on the node the last call returned.
Enter ==
    /\ last.op \in {"lookup", "create", "mkdir"}
    /\ last.err = "ok"
    /\ cur = last.recv
    /\ cur' = last.node
    /\ origin' = IF cur = RootNode THEN getCommitMount(mounts, fsShard, last.name)
                 ELSE origin
    /\ UNCHANGED <<last, commitOpen, inodes>> /\ TreeFrame

\* The kernel starts over from the node filesystem.Root returns.
Root ==
    /\ cur # RootNode
    /\ cur' = RootNode /\ origin' = NilMount
    /\ last' = TLast("root", cur, "", "ok", RootNode, <<>>, <<>>)
    /\ UNCHANGED <<commitOpen, inodes>> /\ TreeFrame

\* The commit is finished on the data service while the mount lives.
FinishCommit(c) ==
    /\ commitOpen[c]
    /\ commitOpen' = [commitOpen EXCEPT ![c] = FALSE]
    /\ UNCHANGED <<cur, origin, last, inodes>> /\ TreeFrame

RECURSIVE SetToSeq(_)
\* The elements of a set in some order (the order of a list the service
\* answers with).
SetToSeq(S) ==
    IF S = {} THEN <<>>
    ELSE LET x == CHOOSE y \in S : TRUE IN <<x>> \o SetToSeq(S \ {x})

Dirent(name, type) == [name |-> name, type |-> type]

\* The entries readRepos answers when list_repo, if called, succeeds
\* (part_001:506-516).
repoEntries ==
    IF Len(mounts) = 0
    THEN [i \in 1..Cardinality(SvcRepos) |-> Dirent(SetToSeq(SvcRepos)[i], "dir")]
    ELSE [i \in 1..Len(mounts) |->
             Dirent(IF mounts[i].alias # "" THEN mounts[i].alias ELSE mounts[i].repo,
                    "dir")]

\* The entries readCommits answers when list_commit succeeds (part_001:527-531).
commitEntries(d) ==
    LET ids == SetToSeq(IF d.repo \in SvcRepos THEN SvcCommits ELSE {})
    IN  [i \in 1..Len(ids) |-> Dirent(ids[i], "dir")]

\* The entries readFiles answers when list_file succeeds (part_001:548-563):
\* the files of another type than regular and directory are left out.
fileEntries(d) ==
    LET infos == SetToSeq({i \in ListFileInfos(d.repo, d.commit, d.path) :
                             i.type \in {"regular", "dir"}})
    IN  [i \in 1..Len(infos) |->
            Dirent(PathStr(SubSeq(infos[i].path, Len(d.path) + 1, Len(infos[i].path))),
                   infos[i].type)]

\* directory.readRepos (part_001:499-519).
readRepos(d) ==
    IF Len(mounts) = 0
    THEN \/ last' = TLast("readdir", d, "", "ok", NoNode, repoEntries,
                          <<RpcPlain("list_repo", "", "")>>)
         \/ \E e \in RpcErrs :
              last' = TLastSvc(e, "readdir", d, "", e, NoNode, <<>>,
                               <<RpcPlain("list_repo", "", "")>>)
    ELSE last' = TLast("readdir", d, "", "ok", NoNode, repoEntries, <<>>)

\* directory.readCommits (part_001:521-532).
readCommits(d) ==
    LET rpc == RpcPlain("list_commit", d.repo, "")
    IN  \/ last' = TLast("readdir", d, "", "ok", NoNode, commitEntries(d), <<rpc>>)
        \/ \E e \in RpcErrs :
              last' = TLastSvc(e, "readdir", d, "", e, NoNode, <<>>, <<rpc>>)

\* directory.readFiles (part_001:534-564); list_file is called with recurse
\* set to false.
readFiles(d) ==
    LET rpc == Rpc("list_file", d, d.path,
                   getFromCommitID(mounts, fsShard, getRepoOrAliasName(d)))
               @@ [recurse |-> FALSE]
    IN  \/ last' = TLast("readdir", d, "", "ok", NoNode, fileEntries(d), <<rpc>>)
        \/ \E e \in RpcErrs :
              last' = TLastSvc(e, "readdir", d, "", e, NoNode, <<>>, <<rpc>>)

\* The directory as ReadDirAll lists it: a directory without a commit whose
\* mount pins one takes the mount's commit and shard (part_001:113-119).
Promoted(d) ==
    LET cm == getCommitMount(mounts, fsShard, getRepoOrAliasName(d))
    IN  IF d.repo # "" /\ d.commit = "" /\ cm.kind # "nil" /\ cm.m.commit # ""
        THEN [d EXCEPT !.commit = cm.m.commit, !.shard = cm.m.shard]
        ELSE d

\* The mutant lists the commits in every directory at the top of a
\* repository, whether its mount pins a commit or not.
ListsCommitsAtTop(d) == d.path = <<>>

\* A directory below the Root answers readCommits when it has no commit id
\* and takes none from its mount (part_001:113-120).
ListsCommits(d) == Promoted(d).commit = ""

\* directory.ReadDirAll (part_001:102-123).  The directory keeps the commit
\* and the shard it took from its mount.
ReadDirAll ==
    /\ cur.kind = "dir"
    /\ cur' = Promoted(cur)
    /\ IF cur.repo = "" THEN readRepos(cur)
       ELSE IF ListsCommits(cur) THEN readCommits(cur)
       ELSE readFiles(Promoted(cur))
    /\ UNCHANGED <<origin, commitOpen, inodes>> /\ TreeFrame

\* The entries ReadDirAll answers on d when the call it issues succeeds.
ReadDirEntries(d) ==
    IF d.repo = "" THEN repoEntries
    ELSE IF ListsCommits(d) THEN commitEntries(d)
    ELSE fileEntries(Promoted(d))

\* The mutant refuses at the Root only.
NoCommitRootOnly(d) == d.repo = ""

\* if d.File.Commit.ID == "" (part_001:129, 148).
NoCommit(d) == d.commit = ""

\* directory.Create (part_001:125-142).  The answer holds the node and, in
\* out, the handle newHandle made for it.
Create(name) ==
    /\ cur.kind = "dir"
    /\ Len(cur.path) < MaxDepth
    /\ IF NoCommit(cur)
       THEN last' = TLast("create", cur, name, "EPERM", NoNode, <<>>, <<>>)
       ELSE last' = TLast("create", cur, name, "ok",
                          [copy(cur) EXCEPT !.kind = "file", !.path = Join(cur.path, name),
                                            !.local = TRUE],
                          <<NoHandle>>, <<>>)
    /\ UNCHANGED <<cur, origin, commitOpen, inodes>> /\ TreeFrame

\* directory.Mkdir (part_001:144-157).
Mkdir(name) ==
    /\ cur.kind = "dir"
    /\ Len(cur.path) < MaxDepth
    /\ LET path == Join(cur.path, name)
           rpc == Rpc("make_directory", cur, path, "")
       IN  IF NoCommit(cur)
           THEN last' = TLast("mkdir", cur, name, "EPERM", NoNode, <<>>, <<>>)
           ELSE \E a \in ChangeAnswers(cur.repo, cur.commit, commitOpen) :
                   IF a # "ok"
                   THEN last' = TLastSvc(a, "mkdir", cur, name, a, NoNode, <<>>, <<rpc>>)
                   ELSE last' = TLast("mkdir", cur, name, "ok",
                                      [copy(cur) EXCEPT !.path = path], <<>>, <<rpc>>)
    /\ UNCHANGED <<cur, origin, commitOpen, inodes>> /\ TreeFrame

\* directory.Remove (part_001:159-164).
Remove(name) ==
    /\ cur.kind = "dir"
    /\ LET rpc == Rpc("delete_file", cur, Join(cur.path, name), "")
       IN  \E a \in ChangeAnswers(cur.repo, cur.commit, commitOpen) :
              last' = TLastSvc(IF a = "ok" THEN "none" ELSE a,
                               "remove", cur, name, a, NoNode, <<>>, <<rpc>>)
    /\ UNCHANGED <<cur, origin, commitOpen, inodes>> /\ TreeFrame

\* directory.Attr (part_001:73-87).
DirAttr ==
    /\ cur.kind = "dir"
    /\ FileOf(cur) \in AttrFiles
    /\ inodes' = InodeTableAfter(inodes, FileOf(cur))
    /\ last' = TLast("attr", cur, "", "ok", NoNode,
                     [mode |-> IF cur.write THEN "dir0775" ELSE "dir0555",
                      key |-> key(FileOf(cur)),
                      inode |-> InodeTableAfter(inodes, FileOf(cur))[key(FileOf(cur))]],
                     <<>>)
    /\ UNCHANGED <<cur, origin, commitOpen>> /\ TreeFrame

\* The mutant hands the not-found of get_file on as it is.
ReadErrorUnchanged(e) == e

\* if grpc.Code(err) == codes.NotFound { return EINVAL }; return err
\* (part_001:271-280).
ReadError(e) == IF e = "notfound" THEN "EINVAL" ELSE e

\* handle.Read (part_001:256-284) on a handle of the file cur: the bytes
\* get_file produced, EINVAL for its not-found, or its failure.  The record
\* of the call holds the request's offset and size as well.
Read(off, size) ==
    LET rpc == [rpc |-> "get_file", repo |-> cur.repo, commit |-> cur.commit,
                path |-> PathStr(cur.path), off |-> off, size |-> size,
                from |-> getFromCommitID(mounts, fsShard, getRepoOrAliasName(cur)),
                shard |-> cur.shard]
        got == SubSeq(SvcContent, off + 1,
                      IF off + size < Len(SvcContent) THEN off + size ELSE Len(SvcContent))
        req == [off |-> off, size |-> size]
    IN  /\ cur.kind = "file"
        /\ \E a \in InspectFileAnswers(cur.repo, cur.commit, cur.path) :
              IF a = "regular"
              THEN last' = TLast("read", cur, "", "ok", NoNode, got, <<rpc>>) @@ req
              ELSE IF a \in {"notfound"} \cup RpcErrs
              THEN last' = TLastSvc(a, "read", cur, "", ReadError(a), NoNode, <<>>,
                                    <<rpc>>) @@ req
              ELSE FALSE
        /\ UNCHANGED <<cur, origin, commitOpen, inodes>> /\ TreeFrame

Next ==
    \/ \E name \in NamesAt(cur) : Lookup(name)
    \/ Enter
    \/ Root
    \/ \E c \in SvcCommits : FinishCommit(c)
    \/ ReadDirAll
    \/ \E name \in NamesAt(cur) : Create(name)
    \/ \E name \in NamesAt(cur) : Mkdir(name)
    \/ \E name \in NamesAt(cur) : Remove(name)
    \/ DirAttr
    \/ \E off \in 0..1, size \in 1..Len(SvcContent) : Read(off, size)

Spec == Init /\ [][Next]_vars

(***************************************************************************)
(* Properties of Spec.                                                     *)
(***************************************************************************)

\* C1 (the claim as stated): create, mkdir and remove on a directory whose
\* writable flag is false fail with EPERM and call the data service for
\* nothing.
C1_WriteOpsRejectedOnReadOnly ==
    (last.op \in {"create", "mkdir", "remove"} /\ ~last.recv.write) =>
        (last.err = "EPERM" /\ last.rpcs = <<>>)

\* No mount has the name as its alias or as its repository.
NoMountMatches(name) ==
    \A i \in 1..Len(mounts) : mounts[i].alias # name /\ mounts[i].repo # name

\* C3 (the claim as stated): lookup at the Root of a name that matches no
\* mount and no existing repository fails with EPERM, whatever the mount
\* list, the empty one included (no call of the data service failing).
C3_UnknownRootNameIsEPERM ==
    (/\ last.op = "lookup" /\ last.recv.repo = ""
     /\ NoMountMatches(last.name) /\ last.name \notin SvcRepos
     /\ last.svc \notin RpcErrs)
    => last.err = "EPERM"

\* C3 (amended): with a non-empty mount list, lookup at the Root of a name
\* that matches no mount fails with EPERM and calls the data service for
\* nothing; with the empty mount list every name resolves to a fresh mount,
\* and the lookup of a name that is no repository fails with what
\* inspect_repo answered (not-found, or the failure of the call), never EPERM.
C3_UnknownRootName ==
    (/\ last.op = "lookup" /\ last.recv.repo = ""
     /\ NoMountMatches(last.name) /\ last.name \notin SvcRepos)
    => IF Len(mounts) > 0
       THEN last.err = "EPERM" /\ last.rpcs = <<>>
       ELSE /\ last.err \in {"notfound"} \cup RpcErrs
            /\ last.rpcs = <<RpcPlain("inspect_repo", last.name, "")>>

\* C3's case: a mount list that does not name Q, and lookup(root, "Q")
\* refused with EPERM.
C3_Witness ==
    /\ last.op = "lookup" /\ last.recv = RootNode /\ last.name = "Q"
    /\ Len(mounts) > 0 /\ NoMountMatches("Q")
    /\ last.err = "EPERM"

\* The nodes the adapter has handed out that the model holds.
HandedNodes ==
    {cur} \cup (IF last.op \in {"lookup", "create", "mkdir"} /\ last.err = "ok"
                THEN {last.node} ELSE {})

\* C7 (the claim as stated): every node handed out is writable exactly when
\* its commit is open on the data service.
C7_WritableIffCommitOpen ==
    \A n \in HandedNodes :
        (n.repo \in SvcRepos /\ n.commit \in SvcCommits) =>
            (n.write <=> commitOpen[n.commit])

\* C8 (the claim as stated): a handler whose call of the data service failed
\* fails with that very error; only read turns not-found into EINVAL.
C8_ServiceErrorsSurface ==
    /\ last.op \in {"lookup", "readdir", "mkdir", "remove", "read"}
         => /\ last.svc \in RpcErrs => last.err = last.svc
            /\ last.svc = "notfound" =>
                 last.err \in (IF last.op = "read" THEN {"EINVAL"}
                               ELSE {"notfound", "ENOENT"})

\* C11: create and mkdir on a directory without a commit id (the Root, or a
\* repository directory of a mount that pins no commit) fail with EPERM,
\* answer no node and no handle, and call the data service for nothing.
C11_NoCommitCreateMkdirRefused ==
    (last.op \in {"create", "mkdir"} /\ last.recv.commit = "") =>
        /\ last.err = "EPERM"
        /\ last.node = NoNode /\ last.out = <<>>
        /\ last.rpcs = <<>>

\* C11's case: mkdir refused on the directory of repository R that
\* lookup(root, "R") answered for a mount without a commit.
C11_Witness ==
    /\ last.op = "mkdir" /\ last.err = "EPERM"
    /\ last.recv.kind = "dir" /\ last.recv.repo = "R" /\ last.recv.commit = ""

\* C12: read answers EINVAL, never not-found, when get_file reports
\* not-found; the error itself and no data on any other failure of get_file;
\* and on success the bytes get_file produced, get_file having been called
\* once with the file's repository, commit, path and shard, the request's
\* offset and size, and the from-commit of the file's mount.
C12_ReadErrorMapping ==
    last.op = "read" =>
        /\ last.rpcs =
              <<[rpc |-> "get_file", repo |-> last.recv.repo,
                 commit |-> last.recv.commit, path |-> PathStr(last.recv.path),
                 off |-> last.off, size |-> last.size,
                 from |-> getFromCommitID(mounts, fsShard,
                                          getRepoOrAliasName(last.recv)),
                 shard |-> last.recv.shard]>>
        /\ last.svc = "notfound" => (last.err = "EINVAL" /\ last.out = <<>>)
        /\ last.svc \in RpcErrs => (last.err = last.svc /\ last.out = <<>>)
        /\ last.svc = "none" =>
              /\ last.err = "ok"
              /\ last.out = SubSeq(SvcContent, last.off + 1,
                                   IF last.off + last.size < Len(SvcContent)
                                   THEN last.off + last.size ELSE Len(SvcContent))

\* C12's case: a read of the empty file that lookup made up in a writable
\* directory, for a path the data service does not hold, answered EINVAL.
C12_Witness ==
    /\ last.op = "read" /\ last.svc = "notfound" /\ last.err = "EINVAL"
    /\ last.recv.write /\ last.recv.path = <<"x">>

\* C13 (the claim as stated): when lookup(d, x) on a non-writable directory d
\* answers a node, readdir(d) against the same data service holds an entry
\* named x, of type directory for a directory and regular for a file.
C13_LookupAgreesWithReaddir ==
    (last.op = "lookup" /\ last.err = "ok" /\ ~last.recv.write) =>
        \E i \in DOMAIN ReadDirEntries(last.recv) :
            /\ ReadDirEntries(last.recv)[i].name = last.name
            /\ ReadDirEntries(last.recv)[i].type =
                  (IF last.node.kind = "dir" THEN "dir" ELSE "regular")

\* C14: lookup(d, x) on a writable directory d of a commit succeeds for every
\* name x, with an empty regular file at d.path/x that inherits d's
\* repository, commit, alias and shard, and calls the data service for
\* nothing, whether the service holds x (as a file or as a directory) or not.
C14_WritableLookupSynthesizes ==
    (last.op = "lookup" /\ last.recv.write /\ last.recv.commit # "") =>
        /\ last.err = "ok"
        /\ last.rpcs = <<>>
        /\ last.node = [last.recv EXCEPT !.kind = "file",
                                         !.path = Append(last.recv.path, last.name),
                                         !.size = 0, !.local = FALSE]

\* C14's case: in a writable directory, lookup of the name x that the data
\* service does not hold has answered an empty file.
C14_Witness ==
    /\ last.op = "lookup" /\ last.recv.write /\ last.recv.commit # ""
    /\ last.name = "x" /\ Append(last.recv.path, "x") \notin DOMAIN SvcFiles
    /\ last.err = "ok" /\ last.node.kind = "file" /\ last.node.size = 0

\* The mount a call on last.recv belongs to: the one the lookup at the Root
\* resolves for the name, or the one the directory descends from.
MountOfLast ==
    IF last.recv.repo = "" THEN getCommitMount(mounts, fsShard, last.name).m
    ELSE origin.m

\* C15: a node that lookup, create or mkdir derives from a directory below
\* the Root has that directory's alias, and the node lookup answers at the
\* Root has its mount's; the repository of every node, of every call of the
\* data service issued for a lookup at the Root or for a node below it, and
\* of every inode key is the repository name of the mount, not its alias.
C15_AliasInheritedNeverIdentity ==
    /\ (last.op \in {"lookup", "create", "mkdir"} /\ last.err = "ok") =>
          /\ last.node.alias =
                (IF last.recv.repo = "" THEN MountOfLast.alias ELSE last.recv.alias)
          /\ last.node.alias = MountOfLast.alias
          /\ last.node.repo = MountOfLast.repo
    /\ (\/ last.op = "lookup"
        \/ last.op \in {"readdir", "mkdir", "remove", "read"} /\ last.recv.repo # "") =>
          \A i \in DOMAIN last.rpcs : last.rpcs[i].repo = MountOfLast.repo
    /\ (last.op = "attr" /\ last.recv.repo # "") =>
          last.out.key = key(Triple(origin.m.repo, last.recv.commit, last.recv.path))

\* C15's case: below the directory of repository R mounted under the alias
\* out, a lookup has asked the data service about R and answered a node
\* that has the alias out.
C15_Witness ==
    /\ last.op = "lookup" /\ last.err = "ok"
    /\ last.recv.repo = "R" /\ last.recv.alias = "out"
    /\ last.node.alias = "out" /\ last.node.repo = "R"
    /\ last.rpcs # <<>> /\ last.rpcs[1].repo = "R"

\* No two mounts of the list have the same alias (a mount may have none).
AtMostOnePerAlias ==
    \A i, j \in 1..Len(mounts) :
        (i # j /\ mounts[i].alias = mounts[j].alias) => mounts[i].alias = ""

C18_NoLocalReadOnlyFile ==
    \A n \in HandedNodes : n.kind = "file" => ~(n.local /\ ~n.write)

\* C19: readdir on the directory lookup(root, name) answered for a mount with
\* a commit issues list_file alone, for the mount's repository and commit,
\* the empty path, the mount's from-commit and shard, recurse off, and
\* answers the files and directories the data service lists there;
\* list_commit is issued by readdir alone, on a directory below the Root
\* that has no commit id and whose mount has none.
C19_PinnedMountListsFiles ==
    /\ (last.op = "readdir" /\ last.recv.repo # "" /\ last.recv.path = <<>>
          /\ origin.m.commit # "") =>
          /\ last.rpcs = <<[rpc |-> "list_file", repo |-> origin.m.repo,
                            commit |-> origin.m.commit, path |-> "",
                            from |-> origin.m.from, shard |-> origin.m.shard,
                            recurse |-> FALSE]>>
          /\ last.err = "ok" =>
                {last.out[i] : i \in DOMAIN last.out} =
                    {Dirent(PathStr(f.path), f.type) :
                        f \in {g \in ListFileInfos(origin.m.repo, origin.m.commit, <<>>) :
                                  g.type \in {"regular", "dir"}}}
    /\ (last.op # "none" /\ \E i \in DOMAIN last.rpcs : last.rpcs[i].rpc = "list_commit") =>
          LET cm == getCommitMount(mounts, fsShard, getRepoOrAliasName(last.recv))
          IN  /\ last.op = "readdir"
              /\ last.recv.repo # "" /\ last.recv.commit = ""
              /\ cm.kind # "nil" /\ cm.m.commit = ""

\* C19's case: the mount has commit c2 of R with the from-commit c1, and
\* readdir on the directory lookup(root, "R") answered has listed the files
\* of c2 against c1.
C19_Witness ==
    /\ last.op = "readdir" /\ last.err = "ok"
    /\ origin.m.repo = "R" /\ origin.m.commit = "c2" /\ origin.m.from = "c1"
    /\ last.recv = [copy(RootNode) EXCEPT !.repo = "R", !.commit = "c2",
                                          !.alias = origin.m.alias,
                                          !.shard = origin.m.shard]
    /\ last.rpcs[1].rpc = "list_file" /\ last.rpcs[1].from = "c1"
    /\ Len(last.out) = 2

\* C22 (the claim as stated): with a non-empty mount list, readdir at the
\* Root answers pairwise distinct names, and lookup at the Root is accepted
\* (not EPERM) for exactly the names readdir answers there, each resolved to
\* the mount whose entry it is.
C22_RootListingAgreesWithLookup ==
    /\ (last.op = "readdir" /\ last.recv.repo = "" /\ Len(mounts) > 0
          /\ last.err = "ok") =>
          \A i, j \in DOMAIN last.out :
              i # j => last.out[i].name # last.out[j].name
    /\ (last.op = "lookup" /\ last.recv.repo = "" /\ Len(mounts) > 0) =>
          /\ last.err # "EPERM" <=>
                \E i \in DOMAIN repoEntries : repoEntries[i].name = last.name
          /\ \A i \in DOMAIN repoEntries :
                repoEntries[i].name = last.name =>
                    getCommitMount(mounts, fsShard, last.name).idx = i

\* C23 (the claim as stated): when mkdir(d, x) has succeeded in a writable
\* directory d and the next call is lookup(d, x), the lookup answers a
\* directory at d.path/x, the kind of node mkdir answered.
C23_MkdirThenLookupIsDirectory ==
    [][(/\ last.op = "mkdir" /\ last.err = "ok" /\ last.recv.write
        /\ last'.op = "lookup" /\ last'.recv = last.recv /\ last'.name = last.name)
       => (/\ last'.err = "ok"
           /\ last'.node.kind = "dir"
           /\ last'.node = last.node)]_vars

(***************************************************************************)
(* The job store of the persist server (rethinkAPIServer).  Strings whose  *)
(* characters the code looks at (commit ids, the commit index) are         *)
(* sequences of character codes; the empty string is <<>>.                 *)
(***************************************************************************)
MaxInputs == 2
IndexPrefixLen == 10

EmptyID == <<>>
ShortID == <<1, 1, 1>>
IDa == [i \in 1..IndexPrefixLen |-> 1]
IDb == [i \in 1..(IndexPrefixLen + 1) |-> IF i < IndexPrefixLen THEN 1 ELSE 2]
ValidIDs == {IDa, IDb}
CommitIDs == {EmptyID, ShortID} \cup ValidIDs

Commit(id) == [Repo |-> "R", ID |-> id]
CommitLists == UNION {[1..n -> {Commit(id) : id \in CommitIDs}] : n \in 0..MaxInputs}

\* The order of sort.Strings: bytewise lexicographic, a proper prefix first.
StrLess(a, b) ==
    \/ Len(a) < Len(b) /\ \A k \in DOMAIN a : a[k] = b[k]
    \/ \E k \in DOMAIN a \cap DOMAIN b :
           /\ a[k] < b[k]
           /\ \A h \in 1..(k - 1) : a[h] = b[h]

\* Where q[j] stands once q is sorted.
Rank(q, j) ==
    1 + Cardinality({k \in DOMAIN q : \/ StrLess(q[k], q[j])
                                      \/ q[k] = q[j] /\ k < j})

Unsorted(q) == q

sortStrings(q) == [i \in DOMAIN q |-> q[CHOOSE j \in DOMAIN q : Rank(q, j) = i]]

\* The strings of q, each IndexPrefixLen characters long, appended one after
\* the other.
Concat(q) ==
    [k \in 1..(Len(q) * IndexPrefixLen) |->
        q[((k - 1) \div IndexPrefixLen) + 1][((k - 1) % IndexPrefixLen) + 1]]

\* The first commit the loop of genCommitIndex cannot take the 10 character
\* prefix of (0 when there is none).
FirstUnsliceable(commits) ==
    LET short == {i \in DOMAIN commits : Len(commits[i].ID) < IndexPrefixLen}
    IN  IF short = {} THEN 0 ELSE CHOOSE i \in short : \A j \in short : i <= j

\* genCommitIndex: an empty id returns the error; commit.ID[0:10] of a
\* shorter, non-empty id is a slice out of range, a run-time panic.
genCommitIndex(commits) ==
    LET stop == FirstUnsliceable(commits)
        commitIDs == [i \in DOMAIN commits |-> SubSeq(commits[i].ID, 1, IndexPrefixLen)]
    IN  IF stop = 0
        THEN [err |-> "ok", index |-> Concat(sortStrings(commitIDs))]
        ELSE IF Len(commits[stop].ID) = 0
        THEN [err |-> "can't generate index", index |-> <<>>]
        ELSE [err |-> "panic", index |-> <<>>]

\* genCommitIndex on every commit list of the model, computed once.
RECURSIVE Tabulate(_)
Tabulate(lists) ==
    IF lists = {} THEN <<>>
    ELSE LET commits == CHOOSE c \in lists : TRUE
         IN  (commits :> genCommitIndex(commits)) @@ Tabulate(lists \ {commits})

IndexOfList == Tabulate(CommitLists)

NotRun == [err |-> "not run", index |-> <<>>]

(***************************************************************************)
(* SpecJobs: CreateJobInfo, ListJobInfos and DeleteJobInfo on the JobInfos *)
(* table (primary key JobID), every request drawn from the sets below.     *)
(***************************************************************************)
NoTime == "unset"
ServerNow == "server time"
NoPipeline == ""
NoCounter == <<>>
PodFields == {"PodsStarted", "PodsSucceeded", "PodsFailed"}

JobIDs == {"", "j1"}
JobInfo(id, at, index, commits) ==
    [JobID |-> id, PipelineName |-> "p", CreatedAt |-> at, CommitIndex |-> index,
     Inputs |-> [i \in DOMAIN commits |-> [Commit |-> commits[i]]],
     State |-> <<>>,
     PodsStarted |-> <<0>>, PodsSucceeded |-> <<0>>, PodsFailed |-> <<0>>]
\* Every choice of JobID, CreatedAt and CommitIndex with at most one input,
\* and every list of inputs with the three fields as the checks want them.
CreateRequests ==
    {JobInfo(id, at, index, commits) :
        id \in JobIDs, at \in {NoTime, "client time"},
        index \in {<<>>, <<1>>}, commits \in {c \in CommitLists : Len(c) <= 1}}
    \cup {JobInfo("j1", NoTime, <<>>, commits) : commits \in CommitLists}
DBErrs == {"ok", "io"}

Counters(doc) == [f \in PodFields |-> doc[f]]
FreshCalls(doc) == [init |-> Counters(doc), n |-> [f \in PodFields |-> 0]]

InitJobs ==
    /\ mounts = <<>> /\ fsShard = NoShard
    /\ IdleService /\ IdleTree /\ IdleInodes /\ IdleHandles
    /\ jobInfos = <<>> /\ podCalls = <<>>
    /\ last = NoLast

JobsFrame ==
    UNCHANGED <<mounts, fsShard, commitOpen, cur, origin, inodes, lock, thr,
                handedOut, file, handles, stream, closed>>

\* insertMessage: Insert with the default conflict mode, which refuses a
\* document whose primary key is in the table.
insertMessage(doc, db) ==
    IF db # "ok" THEN db
    ELSE IF doc.JobID \in DOMAIN jobInfos THEN "duplicate primary key"
    ELSE "ok"

CreateJobInfo(request, db) ==
    LET commits == [i \in DOMAIN request.Inputs |-> request.Inputs[i].Commit]
        checked == /\ request.JobID # ""
                   /\ request.CreatedAt = NoTime
                   /\ request.CommitIndex = <<>>
        gen == IF checked THEN IndexOfList[commits] ELSE NotRun
        stamped == [request EXCEPT !.CreatedAt = ServerNow, !.CommitIndex = gen.index]
        err == IF request.JobID = "" THEN "request.JobID should be set"
               ELSE IF request.CreatedAt # NoTime THEN "request.CreatedAt should be unset"
               ELSE IF request.CommitIndex # <<>> THEN "request.CommitIndex should be unset"
               ELSE IF gen.err # "ok" THEN gen.err
               ELSE insertMessage(stamped, db)
    IN  /\ db # "ok" => checked /\ gen.err = "ok"
        /\ jobInfos' = IF err = "ok" THEN (request.JobID :> stamped) @@ jobInfos
                       ELSE jobInfos
        /\ podCalls' = IF err = "ok" THEN (request.JobID :> FreshCalls(stamped)) @@ podCalls
                       ELSE podCalls
        /\ last' = [op |-> "CreateJobInfo", request |-> request, gen |-> gen,
                    commits |-> commits, err |-> err, before |-> jobInfos,
                    out |-> IF err = "ok" THEN {stamped} ELSE {}]
        /\ JobsFrame

\* The documents GetAllByIndex answers for the three secondary indexes.
GetAllByIndex(index, val) ==
    {doc \in {jobInfos[id] : id \in DOMAIN jobInfos} :
        CASE index = "PipelineNameAndCommitIndex" ->
                 <<doc.PipelineName, doc.CommitIndex>> = val
          [] index = "PipelineName" -> doc.PipelineName = val
          [] index = "CommitIndex" -> doc.CommitIndex = val}

ListJobInfos(pipeline, inputCommit) ==
    LET gen == IndexOfList[inputCommit]
        out == IF gen.err # "ok" THEN {}
               ELSE IF pipeline # NoPipeline /\ Len(inputCommit) > 0
               THEN GetAllByIndex("PipelineNameAndCommitIndex", <<pipeline, gen.index>>)
               ELSE IF pipeline # NoPipeline
               THEN GetAllByIndex("PipelineName", pipeline)
               ELSE IF Len(inputCommit) > 0
               THEN GetAllByIndex("CommitIndex", gen.index)
               ELSE {jobInfos[id] : id \in DOMAIN jobInfos}
    IN  /\ last' = [op |-> "ListJobInfos", pipeline |-> pipeline, gen |-> gen,
                    commits |-> inputCommit, err |-> gen.err, before |-> jobInfos,
                    out |-> out]
        /\ UNCHANGED <<jobInfos, podCalls>>
        /\ JobsFrame

DeleteJobInfo(id) ==
    /\ jobInfos' = [j \in DOMAIN jobInfos \ {id} |-> jobInfos[j]]
    /\ podCalls' = [j \in DOMAIN podCalls \ {id} |-> podCalls[j]]
    /\ last' = [op |-> "DeleteJobInfo", id |-> id, err |-> "ok", before |-> jobInfos,
                gen |-> NotRun, commits |-> <<>>, out |-> {}]
    /\ JobsFrame

NextJobs ==
    \/ \E request \in CreateRequests, db \in DBErrs : CreateJobInfo(request, db)
    \/ \E pipeline \in {NoPipeline, "p"}, inputCommit \in CommitLists :
           ListJobInfos(pipeline, inputCommit)
    \/ \E id \in JobIDs : DeleteJobInfo(id)

SpecJobs == InitJobs /\ [][NextJobs]_vars

\* C24 (the claim as stated): a CreateJobInfo request with an empty JobID, a
\* set CreatedAt, a set CommitIndex or an input commit with an empty id
\* returns an error and leaves the JobInfos table as it was; an accepted
\* request is in the table with the server's CreatedAt and the commit index
\* of its input commits.
C24_CreateValidatesBeforeWrite ==
    last.op = "CreateJobInfo" =>
        /\ (\/ last.request.JobID = ""
            \/ last.request.CreatedAt # NoTime
            \/ last.request.CommitIndex # <<>>
            \/ \E i \in DOMAIN last.commits : last.commits[i].ID = EmptyID) =>
               /\ last.err \notin {"ok", "panic"}
               /\ jobInfos = last.before
        /\ last.err = "ok" =>
               /\ last.request.JobID \in DOMAIN jobInfos
               /\ jobInfos[last.request.JobID].CreatedAt = ServerNow
               /\ jobInfos[last.request.JobID].CommitIndex
                      = IndexOfList[last.commits].index
               /\ jobInfos[last.request.JobID].Inputs = last.request.Inputs

Occurs(x, q) == Cardinality({i \in DOMAIN q : q[i] = x})
Permutes(p, q) ==
    /\ Len(p) = Len(q)
    /\ \A i \in DOMAIN p : Occurs(p[i], p) = Occurs(p[i], q)
AllValid(commits) == \A i \in DOMAIN commits : commits[i].ID \in ValidIDs
InputCommits(doc) == [i \in DOMAIN doc.Inputs |-> doc.Inputs[i].Commit]

\* C25: when genCommitIndex has run on a list of commits whose ids are all
\* valid (at least 10 characters), every permutation of the list has the same
\* index; and ListJobInfos filtered by such a list answers every job of the
\* table (of the pipeline asked for, if one is) whose input commits are a
\* permutation of it.
C25_IndexIgnoresInputOrder ==
    (last.op \in {"CreateJobInfo", "ListJobInfos"} /\ last.gen # NotRun
        /\ AllValid(last.commits)) =>
        /\ last.gen.err = "ok"
        /\ \A other \in CommitLists :
               Permutes(other, last.commits) => IndexOfList[other] = last.gen
        /\ (last.op = "ListJobInfos" /\ Len(last.commits) > 0) =>
               \A id \in DOMAIN jobInfos :
                   (/\ Permutes(InputCommits(jobInfos[id]), last.commits)
                    /\ last.pipeline \in {NoPipeline, jobInfos[id].PipelineName})
                       => jobInfos[id] \in last.out

\* A job created with the commits in one order is answered by ListJobInfos
\* asked with the same two distinct commits in the other order.
C25_Witness ==
    /\ last.op = "ListJobInfos" /\ last.err = "ok" /\ Len(last.commits) = 2
    /\ last.commits[1] # last.commits[2]
    /\ \E doc \in last.out :
           /\ InputCommits(doc) # last.commits
           /\ Permutes(InputCommits(doc), last.commits)

\* C26 (the claim as stated): whenever genCommitIndex runs it returns an
\* index or the error, never a crash, and it returns the error exactly when
\* some commit of the list has an empty id.
C26_GenCommitIndexTotal ==
    (last.op \in {"CreateJobInfo", "ListJobInfos"} /\ last.gen # NotRun) =>
        /\ last.gen.err # "panic"
        /\ last.gen.err # "ok" <=>
               \E i \in DOMAIN last.commits : last.commits[i].ID = EmptyID

(***************************************************************************)
(* SpecPods: StartPod, SucceedPod and FailPod on the document of job j1,   *)
(* which CreateJobInfo or CreateJobState has written; job j2 never has a   *)
(* document.  Each handler is one update of one document, which the store  *)
(* applies atomically, so concurrent calls are the calls in some order.    *)
(***************************************************************************)
MaxPods == 2

PodJobs == {"j1", "j2"}
PodRequests ==
    {[JobInfo("j1", NoTime, <<>>, <<Commit(IDa)>>) EXCEPT !.PodsStarted = <<n>>] :
        n \in {0, 1}}
JobStates == {"running", "success"}

\* What updateMessage inserts for a persist.JobState whose JobID has no
\* document: the fields of the message and no others (the fields the
\* message lacks are written here as their missing values).
StateOnly(id, state) ==
    [JobID |-> id, PipelineName |-> NoPipeline, CreatedAt |-> NoTime,
     CommitIndex |-> <<>>, Inputs |-> <<>>, State |-> <<state>>,
     PodsStarted |-> NoCounter, PodsSucceeded |-> NoCounter, PodsFailed |-> NoCounter]

\* updateMessage: Insert with Conflict "update", which merges the message
\* into the document of its primary key or inserts it.
CreateJobState(id, state) ==
    /\ jobInfos' = IF id \in DOMAIN jobInfos
                   THEN [jobInfos EXCEPT ![id].State = <<state>>]
                   ELSE (id :> StateOnly(id, state)) @@ jobInfos
    /\ podCalls' = IF id \in DOMAIN jobInfos THEN podCalls
                   ELSE (id :> FreshCalls(StateOnly(id, state))) @@ podCalls
    /\ last' = [op |-> "CreateJobState", id |-> id, err |-> "ok", before |-> jobInfos,
                out |-> {}]
    /\ JobsFrame

\* Row.Field(field).Add(1).Default(0): Default covers the whole expression
\* before it, so a document without the field gets 0, not 0 + 1.
AddOneDefaultZero(counter) ==
    IF counter = NoCounter THEN <<0>> ELSE <<counter[1] + 1>>

\* shardOp: Get(request.ID).Update(...) with ReturnChanges; without a
\* document there is no change to read and cursor.Next answers false.
shardOp(op, id, field) ==
    /\ id \in DOMAIN podCalls => podCalls[id].n[field] < MaxPods
    /\ IF id \in DOMAIN jobInfos
       THEN LET new == [jobInfos[id] EXCEPT ![field] = AddOneDefaultZero(@)]
            IN  /\ jobInfos' = [jobInfos EXCEPT ![id] = new]
                /\ podCalls' = [podCalls EXCEPT ![id].n[field] = @ + 1]
                /\ last' = [op |-> op, id |-> id, field |-> field, err |-> "ok",
                            before |-> jobInfos, out |-> {new}]
       ELSE /\ UNCHANGED <<jobInfos, podCalls>>
            /\ last' = [op |-> op, id |-> id, field |-> field, err |-> "no document",
                        before |-> jobInfos, out |-> {}]
    /\ JobsFrame

StartPod(id) == shardOp("StartPod", id, "PodsStarted")
SucceedPod(id) == shardOp("SucceedPod", id, "PodsSucceeded")
FailPod(id) == shardOp("FailPod", id, "PodsFailed")

NextPods ==
    \/ \E request \in PodRequests : CreateJobInfo(request, "ok")
    \/ \E state \in JobStates : CreateJobState("j1", state)
    \/ \E id \in PodJobs : StartPod(id)
    \/ \E id \in PodJobs : SucceedPod(id)
    \/ \E id \in PodJobs : FailPod(id)

SpecPods == InitJobs /\ [][NextPods]_vars

CounterValue(counter) == IF counter = NoCounter THEN 0 ELSE counter[1]

\* C27 (the claim as stated): every counter of an existing job is what the
\* document was written with (0 when it had no such field) plus the number
\* of calls of its handler since; a pod call on an existing job changes no
\* other field of the document and answers the document as it now is.
C27_PodCountersCountCalls ==
    /\ \A id \in DOMAIN jobInfos : \A f \in PodFields :
           CounterValue(jobInfos[id][f])
               = CounterValue(podCalls[id].init[f]) + podCalls[id].n[f]
    /\ (last.op \in {"StartPod", "SucceedPod", "FailPod"} /\ last.err = "ok") =>
           /\ last.out = {jobInfos[last.id]}
           /\ \A g \in DOMAIN jobInfos[last.id] :
                  g # last.field => jobInfos[last.id][g] = last.before[last.id][g]

====
